---- MODULE Spec2Model ----
(***************************************************************************)
(* A model of src/app.py: table_to_markdown, get_document_content,         *)
(* identify_answer_keys (an opaque call), add_comments and main.           *)
(*                                                                         *)
(* Strings whose characters matter (paragraph and cell text, rendered      *)
(* tables) are sequences of one-character strings, so that strip, replace, *)
(* join and splitting into lines are computed and not assumed.  Answer     *)
(* texts and author labels are opaque and stay TLA+ strings.               *)
(***************************************************************************)
EXTENDS Integers, Sequences, FiniteSets, TLC

VARIABLES
    pc,             \* position of the running function
    uploaded_file,  \* what st.file_uploader returned
    heap,           \* the Document instances created so far; an instance is its index
    doc,            \* main's `doc` (an instance, 0 before it is bound)
    xdoc,           \* get_document_content's local `doc`
    pos,            \* get_document_content: index of the next body element
    i,              \* get_document_content: the identifier counter
    content,        \* get_document_content: the list of records
    answer_keys,    \* the AnswerKeys the classifier returned
    kidx,           \* add_comments: index of the next answer key
    annotated_doc,  \* main's `annotated_doc` (0 before add_comments returned)
    output,         \* the documents saved for download
    table,          \* table_to_markdown: its argument
    table_md,       \* table_to_markdown: its result (a singleton sequence once returned)
    error,          \* the exception that ended the run ("" while there is none)
    log             \* history: the steps of main completed so far, in order

vars == <<pc, uploaded_file, heap, doc, xdoc, pos, i, content, answer_keys,
          kidx, annotated_doc, output, table, table_md, error, log>>

----------------------------------------------------------------------------
(* Bounds of the model *)

MaxRows == 2
MaxCols == 2
MaxBody == 4
MaxDocBody == 2
MaxKeys == 2
MaxId == 2

SeqsUpTo(S, n) == UNION {[1..k -> S] : k \in 0..n}

----------------------------------------------------------------------------
(* Strings *)

Str_Q1 == <<"Q", "1">>
Str_Q2 == <<"Q", "2">>

IsSpace(c) == c \in {" ", "\n", "\t"}

RECURSIVE LStrip(_)
LStrip(s) == IF s = <<>> THEN s
             ELSE IF IsSpace(Head(s)) THEN LStrip(Tail(s)) ELSE s

RECURSIVE RStrip(_)
RStrip(s) == IF s = <<>> THEN s
             ELSE IF IsSpace(s[Len(s)]) THEN RStrip(SubSeq(s, 1, Len(s) - 1)) ELSE s

\* str.strip()
Strip(s) == RStrip(LStrip(s))

\* str.replace(a, b) for one-character a and b
Replace(s, a, b) == [k \in 1..Len(s) |-> IF s[k] = a THEN b ELSE s[k]]

\* sep.join(parts)
RECURSIVE Join(_, _)
Join(parts, sep) == IF parts = <<>> THEN <<>>
                    ELSE IF Len(parts) = 1 THEN parts[1]
                    ELSE parts[1] \o sep \o Join(Tail(parts), sep)

\* list.insert(idx, x) for idx >= 0: x goes before the element at 0-based idx,
\* or at the end when the list is shorter
ListInsert(l, idx, x) ==
    LET at == IF idx > Len(l) THEN Len(l) ELSE idx
    IN  SubSeq(l, 1, at) \o <<x>> \o SubSeq(l, at + 1, Len(l))

----------------------------------------------------------------------------
(* table_to_markdown *)

\* line 26: cells = [cell.text.replace('\n', ' ').strip() for cell in row.cells]
CellTexts(row) == [k \in 1..Len(row) |-> Strip(Replace(row[k], "\n", " "))]

\* line 27: f"| {' | '.join(cells)} |"
RowLine(row) == <<"|", " ">> \o Join(CellTexts(row), <<" ", "|", " ">>) \o <<" ", "|">>

\* line 31: f"| {' | '.join(['---'] * len(table.columns))} |"
HeaderSep(ncols) ==
    <<"|", " ">> \o Join([k \in 1..ncols |-> <<"-", "-", "-">>], <<" ", "|", " ">>)
                 \o <<" ", "|">>

WithSepFirst(md_rows, ncols) ==
    IF Len(md_rows) > 0 THEN ListInsert(md_rows, 0, HeaderSep(ncols)) ELSE md_rows

\* lines 30-32: the separator goes in at index 1 when there is any row
WithSep(md_rows, ncols) ==
    IF Len(md_rows) > 0 THEN ListInsert(md_rows, 1, HeaderSep(ncols)) ELSE md_rows

\* lines 22-34; a table is [rows |-> a sequence of rows, each a sequence of cell
\* texts, columns |-> len(table.columns)]
table_to_markdown(t) ==
    LET md_rows == [k \in 1..Len(t.rows) |-> RowLine(t.rows[k])]
    IN  Join(WithSep(md_rows, t.columns), <<"\n">>)

----------------------------------------------------------------------------
(* Documents *)

\* A body element is a paragraph (CT_P), a table (CT_Tbl) or any other child of
\* the body (w:sectPr, w:sdt, ...).  A paragraph has its text, the number of its
\* runs (a paragraph whose text sits in a hyperlink has text and no run) and the
\* ids of the comments whose range is marked in it.
Para(text, runs) == [kind |-> "p", text |-> text, runs |-> runs, marks |-> <<>>]
Tbl(t) == [kind |-> "tbl", table |-> t]
Other == [kind |-> "other"]

IsPara(e) == e.kind = "p"
IsTbl(e) == e.kind = "tbl"

\* Document(file): a new instance with the file's body and no comments
NewDocument(file) == [body |-> file.body, comments |-> <<>>]

\* The body indices of the paragraphs, in order
RECURSIVE FlatIndexFrom(_, _)
FlatIndexFrom(body, b) ==
    IF b > Len(body) THEN <<>>
    ELSE IF IsPara(body[b]) THEN <<b>> \o FlatIndexFrom(body, b + 1)
    ELSE FlatIndexFrom(body, b + 1)

FlatIndex(body) == FlatIndexFrom(body, 1)

\* doc.paragraphs: the paragraphs that are children of the body, in order
Paragraphs(d) == [k \in 1..Len(FlatIndex(d.body)) |-> d.body[FlatIndex(d.body)[k]]]

File(body) == [present |-> TRUE, valid |-> TRUE, body |-> body]
MalformedFile == [present |-> TRUE, valid |-> FALSE, body |-> <<>>]
NoFile == [present |-> FALSE, valid |-> FALSE, body |-> <<>>]

----------------------------------------------------------------------------
(* get_document_content *)

\* line 48: if para.text.strip()
ParaEmits(para) == Strip(para.text) # <<>>

\* lines 49-53
ParagraphRecord(para, id) ==
    [type |-> "paragraph", content |-> Strip(para.text), para_id |-> id]

\* lines 56-61
TableRecord(t) == [type |-> "table", content |-> table_to_markdown(t)]

\* line 41: doc = Document(file_path), then lines 42 and 44
GdcOpen ==
    /\ pc = "gdc_open"
    /\ \/ /\ uploaded_file.valid
          /\ heap' = Append(heap, NewDocument(uploaded_file))
          /\ xdoc' = Len(heap) + 1
          /\ content' = <<>>
          /\ i' = 0
          /\ pos' = 1
          /\ pc' = "gdc_loop"
          /\ error' = error
       \/ /\ ~uploaded_file.valid
          /\ pc' = "failed"
          /\ error' = "PackageNotFoundError"
          /\ UNCHANGED <<heap, xdoc, content, i, pos>>
    /\ UNCHANGED <<uploaded_file, doc, answer_keys, kidx, annotated_doc, output,
                   table, table_md, log>>

GdcUnchanged == <<uploaded_file, heap, doc, xdoc, answer_keys, kidx, annotated_doc,
                  output, table, table_md, error>>

ExtractParagraph_CountEmitted ==
    /\ pc = "gdc_loop"
    /\ pos <= Len(heap[xdoc].body)
    /\ IsPara(heap[xdoc].body[pos])
    /\ LET para == heap[xdoc].body[pos]
       IN  /\ content' = IF ParaEmits(para)
                         THEN Append(content, ParagraphRecord(para, i))
                         ELSE content
           /\ i' = IF ParaEmits(para) THEN i + 1 ELSE i
    /\ pos' = pos + 1
    /\ UNCHANGED <<pc, log>>
    /\ UNCHANGED GdcUnchanged

\* lines 46-54: a paragraph is emitted when its trimmed text is not empty, and
\* counted either way
ExtractParagraph ==
    /\ pc = "gdc_loop"
    /\ pos <= Len(heap[xdoc].body)
    /\ IsPara(heap[xdoc].body[pos])
    /\ LET para == heap[xdoc].body[pos]
       IN  content' = IF ParaEmits(para)
                      THEN Append(content, ParagraphRecord(para, i))
                      ELSE content
    /\ i' = i + 1
    /\ pos' = pos + 1
    /\ UNCHANGED <<pc, log>>
    /\ UNCHANGED GdcUnchanged

ExtractTable_Counted ==
    /\ pc = "gdc_loop"
    /\ pos <= Len(heap[xdoc].body)
    /\ IsTbl(heap[xdoc].body[pos])
    /\ content' = Append(content, TableRecord(heap[xdoc].body[pos].table))
    /\ i' = i + 1
    /\ pos' = pos + 1
    /\ UNCHANGED <<pc, log>>
    /\ UNCHANGED GdcUnchanged

\* lines 55-61: a table is rendered and emitted; the counter is left alone
ExtractTable ==
    /\ pc = "gdc_loop"
    /\ pos <= Len(heap[xdoc].body)
    /\ IsTbl(heap[xdoc].body[pos])
    /\ content' = Append(content, TableRecord(heap[xdoc].body[pos].table))
    /\ pos' = pos + 1
    /\ UNCHANGED <<pc, i, log>>
    /\ UNCHANGED GdcUnchanged

\* lines 45-61: an element that is neither is passed over
ExtractOther ==
    /\ pc = "gdc_loop"
    /\ pos <= Len(heap[xdoc].body)
    /\ ~IsPara(heap[xdoc].body[pos])
    /\ ~IsTbl(heap[xdoc].body[pos])
    /\ pos' = pos + 1
    /\ UNCHANGED <<pc, i, content, log>>
    /\ UNCHANGED GdcUnchanged

\* line 62: return doc, content; main (line 108) drops the doc and goes on to
\* line 111
GdcReturn ==
    /\ pc = "gdc_loop"
    /\ pos > Len(heap[xdoc].body)
    /\ pc' = "classify"
    /\ log' = Append(log, "extraction")
    /\ UNCHANGED <<pos, i, content>>
    /\ UNCHANGED GdcUnchanged

----------------------------------------------------------------------------
(* Inputs *)

CellSet == {<<"a">>, <<" ", "b", "\n", "c">>}

Tables == [rows : SeqsUpTo(SeqsUpTo(CellSet, MaxCols), MaxRows), columns : 0..MaxCols]

EmptyTable == [rows |-> <<>>, columns |-> 0]
SmallTable == [rows |-> << <<<<"a">>, <<" ", "b", "\n", "c">>>> >>, columns |-> 2]

Elements ==
    {Para(<<>>, 0), Para(<<" ">>, 1), Para(Str_Q1, 1), Para(Str_Q2, 1),
     Para(<<" ">> \o Str_Q1 \o <<"\n">>, 1), Tbl(EmptyTable), Tbl(SmallTable), Other}

NoTable == [rows |-> <<>>, columns |-> 0]

----------------------------------------------------------------------------
(* table_to_markdown alone, on any table *)

InitTable ==
    /\ pc = "table"
    /\ table \in Tables
    /\ table_md = <<>>
    /\ uploaded_file = NoFile
    /\ heap = <<>>
    /\ doc = 0 /\ xdoc = 0 /\ pos = 0 /\ i = 0
    /\ content = <<>>
    /\ answer_keys = <<>>
    /\ kidx = 0
    /\ annotated_doc = 0
    /\ output = <<>>
    /\ error = ""
    /\ log = <<>>

RenderTable ==
    /\ pc = "table"
    /\ table_md' = <<table_to_markdown(table)>>
    /\ pc' = "table_done"
    /\ UNCHANGED <<uploaded_file, heap, doc, xdoc, pos, i, content, answer_keys,
                   kidx, annotated_doc, output, table, error, log>>

NextTable == RenderTable

SpecTable == InitTable /\ [][NextTable]_vars

----------------------------------------------------------------------------
(* get_document_content alone, on any file *)

InitExtract ==
    /\ pc = "gdc_open"
    /\ uploaded_file \in {File(b) : b \in SeqsUpTo(Elements, MaxBody)} \cup {MalformedFile}
    /\ heap = <<>>
    /\ doc = 0 /\ xdoc = 0 /\ pos = 0 /\ i = 0
    /\ content = <<>>
    /\ answer_keys = <<>>
    /\ kidx = 0
    /\ annotated_doc = 0
    /\ output = <<>>
    /\ table = NoTable
    /\ table_md = <<>>
    /\ error = ""
    /\ log = <<>>

NextExtract ==
    \/ GdcOpen
    \/ ExtractParagraph
    \/ ExtractTable
    \/ ExtractOther
    \/ GdcReturn

SpecExtract == InitExtract /\ [][NextExtract]_vars

----------------------------------------------------------------------------
(* add_comments *)

ResolveIndex_OneBased(n, idx) ==
    IF idx >= 1 /\ idx <= n THEN idx
    ELSE IF idx < 0 /\ idx >= -n THEN n + idx + 1
    ELSE 0

\* line 90: doc.paragraphs[para_id], the indexing of a Python list of length n.
\* The 1-based place of the element, or 0 for an IndexError: an index in
\* -n..-1 counts from the end.
ResolveIndex(n, idx) ==
    IF idx >= 0 /\ idx < n THEN idx + 1
    ELSE IF idx < 0 /\ idx >= -n THEN n + idx + 1
    ELSE 0

Author == "ChemistryAI"

AttachComment_Overwrite(d, b, answer) ==
    IF d.body[b].marks # <<>>
    THEN [d EXCEPT !.comments[d.body[b].marks[1] + 1].text = answer]
    ELSE LET comment_id == Len(d.comments)
         IN  [d EXCEPT !.comments = Append(@, [comment_id |-> comment_id, text |-> answer,
                                               author |-> Author]),
                       !.body[b].marks = Append(@, comment_id),
                       !.body[b].runs = @ + 1]

AttachComment_IntoText(d, b, answer) ==
    LET comment_id == Len(d.comments)
    IN  [d EXCEPT !.comments = Append(@, [comment_id |-> comment_id, text |-> answer,
                                          author |-> Author]),
                  !.body[b].marks = Append(@, comment_id),
                  !.body[b].text = @ \o <<answer>>,
                  !.body[b].runs = @ + 1]

\* line 91, for a paragraph with at least one run: Document.add_comment adds a
\* comment with the next id to the comments part and marks its range from the
\* paragraph's first run to its last, followed by a new run that holds the
\* comment's reference and no text.  b is the paragraph's place in the body.
AttachComment(d, b, answer) ==
    LET comment_id == Len(d.comments)
    IN  [d EXCEPT !.comments = Append(@, [comment_id |-> comment_id, text |-> answer,
                                          author |-> Author]),
                  !.body[b].marks = Append(@, comment_id),
                  !.body[b].runs = @ + 1]

AddCommentsUnchanged == <<uploaded_file, doc, xdoc, pos, i, content, answer_keys,
                          annotated_doc, output, table, table_md, log>>

\* lines 89-91, one turn of the loop.  Line 90 raises IndexError for an index
\* out of the list; line 91 raises IndexError (runs[0]) for a paragraph that
\* has no run.  Neither is caught: the exception ends add_comments and main.
AddComment ==
    /\ pc = "add_comments"
    /\ kidx <= Len(answer_keys)
    /\ LET answer_key == answer_keys[kidx]
           flat == FlatIndex(heap[doc].body)
           place == ResolveIndex(Len(flat), answer_key.para_id)
       IN  IF place = 0 \/ heap[doc].body[flat[place]].runs = 0
           THEN /\ pc' = "failed"
                /\ error' = "IndexError"
                /\ UNCHANGED <<heap, kidx>>
           ELSE /\ heap' = [heap EXCEPT ![doc] = AttachComment(@, flat[place], answer_key.answer)]
                /\ kidx' = kidx + 1
                /\ UNCHANGED <<pc, error>>
    /\ UNCHANGED AddCommentsUnchanged

\* line 92: return doc, bound to annotated_doc at line 114
AddCommentsReturn ==
    /\ pc = "add_comments"
    /\ kidx > Len(answer_keys)
    /\ annotated_doc' = doc
    /\ pc' = "save"
    /\ log' = Append(log, "reinsertion")
    /\ UNCHANGED <<uploaded_file, heap, doc, xdoc, pos, i, content, answer_keys, kidx,
                   output, table, table_md, error>>

----------------------------------------------------------------------------
(* main *)

\* the bodies main is run on end with the body's w:sectPr
DocElements ==
    {Para(<<>>, 0), Para(Str_Q1, 1), Para(Str_Q2, 1), Para(Str_Q1, 0), Tbl(SmallTable)}

Answers == {"42", "7"}

\* what AnswerKeys.model_validate_json accepts: any integer and any string
KeySets == SeqsUpTo([para_id : (-MaxId)..MaxId, answer : Answers], MaxKeys)

\* lines 104-105: nothing happens until a file is uploaded
MainStart ==
    /\ pc = "main"
    /\ pc' = IF uploaded_file.present THEN "open" ELSE "idle"
    /\ UNCHANGED <<uploaded_file, heap, doc, xdoc, pos, i, content, answer_keys, kidx,
                   annotated_doc, output, table, table_md, error, log>>

\* line 107: doc = Document(uploaded_file)
OpenDocument ==
    /\ pc = "open"
    /\ IF uploaded_file.valid
       THEN /\ heap' = Append(heap, NewDocument(uploaded_file))
            /\ doc' = Len(heap) + 1
            /\ pc' = "gdc_open"
            /\ error' = error
       ELSE /\ pc' = "failed"
            /\ error' = "PackageNotFoundError"
            /\ UNCHANGED <<heap, doc>>
    /\ UNCHANGED <<uploaded_file, xdoc, pos, i, content, answer_keys, kidx,
                   annotated_doc, output, table, table_md, log>>

\* lines 75-85 and 111, when the call and the validation of its response succeed:
\* the classifier may return any answer keys
IdentifyAnswerKeys ==
    /\ pc = "classify"
    /\ answer_keys' \in KeySets
    /\ kidx' = 1
    /\ pc' = "add_comments"
    /\ log' = Append(log, "classifier")
    /\ UNCHANGED <<uploaded_file, heap, doc, xdoc, pos, i, content, annotated_doc,
                   output, table, table_md, error>>

\* lines 77-85 and 111, when the call raises or the response does not validate
IdentifyAnswerKeysFails ==
    /\ pc = "classify"
    /\ pc' = "failed"
    /\ error' \in {"APIError", "ValidationError"}
    /\ UNCHANGED <<uploaded_file, heap, doc, xdoc, pos, i, content, answer_keys, kidx,
                   annotated_doc, output, table, table_md, log>>

Save_Early ==
    /\ pc \in {"add_comments", "save"}
    /\ doc # 0
    /\ output' = Append(output, heap[doc])
    /\ pc' = "done"
    /\ log' = Append(log, "save")
    /\ UNCHANGED <<uploaded_file, heap, doc, xdoc, pos, i, content, answer_keys, kidx,
                   annotated_doc, table, table_md, error>>

Save_Extracted ==
    /\ pc = "save"
    /\ output' = Append(output, heap[xdoc])
    /\ pc' = "done"
    /\ log' = Append(log, "save")
    /\ UNCHANGED <<uploaded_file, heap, doc, xdoc, pos, i, content, answer_keys, kidx,
                   annotated_doc, table, table_md, error>>

\* lines 116-129: annotated_doc.save(annotated_file), offered for download
Save ==
    /\ pc = "save"
    /\ output' = Append(output, heap[annotated_doc])
    /\ pc' = "done"
    /\ log' = Append(log, "save")
    /\ UNCHANGED <<uploaded_file, heap, doc, xdoc, pos, i, content, answer_keys, kidx,
                   annotated_doc, table, table_md, error>>

Init ==
    /\ pc = "main"
    /\ uploaded_file \in {File(b \o <<Other>>) : b \in SeqsUpTo(DocElements, MaxDocBody)}
                             \cup {MalformedFile, NoFile}
    /\ heap = <<>>
    /\ doc = 0 /\ xdoc = 0 /\ pos = 0 /\ i = 0
    /\ content = <<>>
    /\ answer_keys = <<>>
    /\ kidx = 0
    /\ annotated_doc = 0
    /\ output = <<>>
    /\ table = NoTable
    /\ table_md = <<>>
    /\ error = ""
    /\ log = <<>>

Next ==
    \/ MainStart
    \/ OpenDocument
    \/ GdcOpen
    \/ ExtractParagraph
    \/ ExtractTable
    \/ ExtractOther
    \/ GdcReturn
    \/ IdentifyAnswerKeys
    \/ IdentifyAnswerKeysFails
    \/ AddComment
    \/ AddCommentsReturn
    \/ Save

Spec == Init /\ [][Next]_vars

----------------------------------------------------------------------------
(* Properties of table_to_markdown and get_document_content *)

\* The lines of a rendered text: its pieces between line breaks
RECURSIVE SplitLines(_)
SplitLines(s) ==
    IF \A k \in 1..Len(s) : s[k] # "\n" THEN <<s>>
    ELSE LET n == CHOOSE k \in 1..Len(s) : s[k] = "\n" /\ \A j \in 1..(k - 1) : s[j] # "\n"
         IN  <<SubSeq(s, 1, n - 1)>> \o SplitLines(SubSeq(s, n + 1, Len(s)))

\* The number of '---' entries of a line
DashEntries(line) ==
    Cardinality({k \in 1..(Len(line) - 2) : SubSeq(line, k, k + 2) = <<"-", "-", "-">>})

IsSeparatorLine(line, ncols) ==
    /\ \A k \in 1..Len(line) : line[k] \in {"|", " ", "-"}
    /\ DashEntries(line) = ncols
    /\ Len(line) >= 4
    /\ SubSeq(line, 1, 2) = <<"|", " ">>
    /\ SubSeq(line, Len(line) - 1, Len(line)) = <<" ", "|">>

HasVisible(text) == \E k \in 1..Len(text) : ~IsSpace(text[k])

\* The body indices, among the first n, of the elements that are to be emitted
RECURSIVE EmittedFrom(_, _, _)
EmittedFrom(body, b, n) ==
    IF b > n THEN <<>>
    ELSE IF IsTbl(body[b]) \/ (IsPara(body[b]) /\ HasVisible(body[b].text))
         THEN <<b>> \o EmittedFrom(body, b + 1, n)
         ELSE EmittedFrom(body, b + 1, n)

InExtraction == pc \in {"gdc_loop", "classify"} /\ xdoc # 0

\* C10: a table of r >= 1 rows renders as r+1 lines, the first row, then one
\* separator line with one '---' entry per column, then the other rows in order;
\* a table of no rows renders as the empty string.
C10_TableLines ==
    pc = "table_done" =>
        LET md == table_md[1]
            r == Len(table.rows)
            lines == SplitLines(md)
        IN  IF r = 0 THEN md = <<>>
            ELSE /\ Len(lines) = r + 1
                 /\ lines[1] = RowLine(table.rows[1])
                 /\ IsSeparatorLine(lines[2], table.columns)
                 /\ \A k \in 3..(r + 1) : lines[k] = RowLine(table.rows[k - 1])

C10_Witness ==
    /\ pc = "table_done"
    /\ Len(table.rows) = 2
    /\ table.columns = 2
    /\ table.rows[1] # table.rows[2]
    /\ \E k \in 1..Len(table.rows[2]) : \E j \in 1..Len(table.rows[2][k]) :
           table.rows[2][k][j] = "\n"
    /\ Len(SplitLines(table_md[1])) = 3

\* C1: every paragraph record carries as para_id the zero-based position of its
\* paragraph in doc.paragraphs, whatever tables, empty paragraphs and other
\* elements come before it.
C1_IdentifierAlignment ==
    InExtraction =>
        LET body == heap[xdoc].body
            emitted == EmittedFrom(body, 1, pos - 1)
            flat == FlatIndex(body)
        IN  /\ Len(content) = Len(emitted)
            /\ \A k \in 1..Len(content) :
                   IF IsPara(body[emitted[k]])
                   THEN /\ content[k].type = "paragraph"
                        /\ content[k].para_id \in 0..(Len(flat) - 1)
                        /\ flat[content[k].para_id + 1] = emitted[k]
                        /\ Paragraphs(heap[xdoc])[content[k].para_id + 1] = body[emitted[k]]
                   ELSE content[k].type = "table"

\* a paragraph was emitted after an empty paragraph, a table and another element
C1_Witness ==
    /\ pc = "classify" /\ xdoc # 0
    /\ LET body == heap[xdoc].body
       IN  /\ Len(body) = 4
           /\ IsPara(body[1]) /\ ~HasVisible(body[1].text)
           /\ IsTbl(body[2])
           /\ IsPara(body[3]) /\ HasVisible(body[3].text)
           /\ IsPara(body[4]) /\ HasVisible(body[4].text)
           /\ Len(content) = 3
           /\ content[2].para_id = 1
           /\ content[3].para_id = 2

\* C2: a paragraph whose trimmed text is empty is not emitted and still takes an
\* identifier; a paragraph whose trimmed text is not empty is emitted exactly once.
C2_EmissionFiltering ==
    InExtraction =>
        LET paras == Paragraphs(heap[xdoc])
            body == heap[xdoc].body
            seen == Cardinality({b \in 1..(pos - 1) : IsPara(body[b])})
        IN  /\ i = seen
            /\ \A k \in 1..Len(content) :
                   content[k].type = "paragraph" => HasVisible(content[k].content)
            /\ \A p \in 0..(seen - 1) :
                   Cardinality({k \in 1..Len(content) :
                                   content[k].type = "paragraph" /\ content[k].para_id = p})
                       = IF HasVisible(paras[p + 1].text) THEN 1 ELSE 0

\* the paragraphs "", "Q1", "", "Q2" are emitted as the identifiers 1 and 3
C2_Witness ==
    /\ pc = "classify" /\ xdoc # 0
    /\ [k \in 1..Len(heap[xdoc].body) |-> heap[xdoc].body[k].kind] = <<"p", "p", "p", "p">>
    /\ [k \in 1..4 |-> heap[xdoc].body[k].text] = <<<<>>, Str_Q1, <<>>, Str_Q2>>
    /\ [k \in 1..Len(content) |-> content[k].para_id] = <<1, 3>>
    /\ [k \in 1..Len(content) |-> content[k].content] = <<Str_Q1, Str_Q2>>

----------------------------------------------------------------------------
(* Properties of add_comments and main *)

ClassifierReturned == \E k \in 1..Len(log) : log[k] = "classifier"

\* add_comments was called and is over, returned or raised
AddCommentsOver == ClassifierReturned /\ pc \in {"failed", "save", "done"}

ParagraphCount == Len(FlatIndex(heap[doc].body))

InRange(j) == answer_keys[j].para_id \in 0..(ParagraphCount - 1)

\* the paragraph named by an in-range key had a run when the file was opened
HadRuns(j) ==
    uploaded_file.body[FlatIndex(uploaded_file.body)[answer_keys[j].para_id + 1]].runs >= 1

\* the texts of the comments marked in the paragraph at flat position p, in order
AnnotationsOf(p) ==
    LET d == heap[doc]
        marks == d.body[FlatIndex(d.body)[p + 1]].marks
    IN  [k \in 1..Len(marks) |-> d.comments[marks[k] + 1].text]

\* the answers of the keys that name p, in order
AnswersFor(p) ==
    LET named == SelectSeq(answer_keys, LAMBDA a : a.para_id = p)
    IN  [k \in 1..Len(named) |-> named[k].answer]

ExactlyApplied ==
    /\ Len(heap[doc].comments) = Len(answer_keys)
    /\ \A p \in 0..(ParagraphCount - 1) : AnnotationsOf(p) = AnswersFor(p)

\* C3 as stated: when every identifier is a paragraph position, there is exactly
\* one annotation per assignment, on its paragraph and with its answer, and no
\* other paragraph has one.
C3_AllValidAllApplied ==
    (AddCommentsOver /\ \A j \in 1..Len(answer_keys) : InRange(j)) => ExactlyApplied

\* C3 as amended: the same, when moreover every paragraph named has a run.
C3_AllAttachableAllApplied ==
    (AddCommentsOver /\ \A j \in 1..Len(answer_keys) : InRange(j) /\ HadRuns(j))
        => (pc # "failed" /\ ExactlyApplied)

\* "Q1", "Q2" with the keys {0, "42"}, {1, "7"}
C3_Witness ==
    /\ pc = "done"
    /\ [k \in 1..Len(Paragraphs(heap[doc])) |-> Paragraphs(heap[doc])[k].text]
           = <<Str_Q1, Str_Q2>>
    /\ answer_keys = <<[para_id |-> 0, answer |-> "42"], [para_id |-> 1, answer |-> "7"]>>
    /\ AnnotationsOf(0) = <<"42">>
    /\ AnnotationsOf(1) = <<"7">>

\* the comment range marks of the document: <<place in the body, place in marks>>
AllMarks == {<<b, k>> \in (1..Len(heap[doc].body)) \X (1..Len(answer_keys)) :
                /\ IsPara(heap[doc].body[b])
                /\ k <= Len(heap[doc].body[b].marks)}

C5_OutOfRangeResilience ==
    (/\ AddCommentsOver
     /\ \A j \in 1..Len(answer_keys) :
            \/ InRange(j) /\ HadRuns(j)
            \/ answer_keys[j].para_id >= ParagraphCount)
        => \A p \in 0..(ParagraphCount - 1) : AnnotationsOf(p) = AnswersFor(p)

\* C6: an assignment with a negative identifier fails: add_comments never gets
\* past it, and no comment is attached for it.
C6_NegativeRejected ==
    (ClassifierReturned /\ doc # 0) =>
        /\ \A j \in 1..(kidx - 1) : answer_keys[j].para_id >= 0
        /\ Len(heap[doc].comments)
               <= Cardinality({j \in 1..Len(answer_keys) : answer_keys[j].para_id >= 0})

\* C7: add_comments leaves the number, the order and the text of the paragraphs
\* (and every other element of the body) as they were in the file, and returns
\* the instance it was given.
C7_OnlyAnnotationLayer ==
    doc # 0 =>
        LET body == heap[doc].body
            was == uploaded_file.body
        IN  /\ Len(body) = Len(was)
            /\ \A b \in 1..Len(body) :
                   /\ body[b].kind = was[b].kind
                   /\ IsPara(body[b]) => body[b].text = was[b].text
                   /\ ~IsPara(body[b]) => body[b] = was[b]
            /\ Len(Paragraphs(heap[doc])) = Len(FlatIndex(was))
            /\ annotated_doc # 0 => annotated_doc = doc

C7_Witness ==
    /\ pc = "save"
    /\ annotated_doc = doc
    /\ Len(heap[doc].comments) = 2
    /\ ParagraphCount = 2

PipelineSteps == <<"extraction", "classifier", "reinsertion", "save">>

\* C8: the steps of a run are extraction, classifier call, reinsertion, save, in
\* this order; a run that succeeds has saved one document, with every
\* assignment applied, and any other run none.
C8_PipelineOrder ==
    /\ Len(log) <= Len(PipelineSteps)
    /\ log = SubSeq(PipelineSteps, 1, Len(log))
    /\ Len(output) = IF pc = "done" THEN 1 ELSE 0
    /\ pc = "done" =>
           /\ log = PipelineSteps
           /\ error = ""
           /\ Len(output[1].comments) = Len(answer_keys)
           /\ kidx = Len(answer_keys) + 1
    /\ pc = "failed" => (error # "" /\ output = <<>>)
    /\ error # "" => pc = "failed"

C8_Witness ==
    /\ pc = "done"
    /\ Len(output) = 1
    /\ Len(output[1].comments) = 2

\* C9 as stated: the instance get_document_content traversed is the instance
\* add_comments mutates and main saves.
C9_SameInstance == (xdoc # 0 /\ doc # 0) => xdoc = doc

\* C9 as amended: they are two instances made from the same uploaded file; the
\* traversed one is never changed, the one main opened is the one mutated and
\* saved, and both have the same paragraphs at the same positions.
C9_TwoInstancesOfOneFile ==
    (xdoc # 0 /\ doc # 0) =>
        /\ xdoc # doc
        /\ heap[xdoc] = NewDocument(uploaded_file)
        /\ FlatIndex(heap[xdoc].body) = FlatIndex(heap[doc].body)
        /\ \A k \in 1..ParagraphCount :
               Paragraphs(heap[xdoc])[k].text = Paragraphs(heap[doc])[k].text
        /\ ClassifierReturned => Len(heap[doc].comments) = kidx - 1
        /\ output # <<>> => (output[1] = heap[doc] /\ annotated_doc = doc)

C9_Witness ==
    /\ pc = "done"
    /\ xdoc # doc
    /\ Len(output[1].comments) >= 1
    /\ heap[xdoc].comments = <<>>

====
